---- MODULE Spec2Model ----
(***************************************************************************)
(* GpuAllocator (src/src/renderer/allocator/gpu.rs): the Allocate impl     *)
(* over a shared Arc<Mutex<gpu_allocator::vulkan::Allocator>>.             *)
(*                                                                         *)
(* Every thread owns one GpuAllocator value holding a clone of the same    *)
(* Arc; a thread is the caller of create_buffer / create_image /           *)
(* destroy_buffer / destroy_image / update_buffer and owns at most one     *)
(* (resource, allocation) pair at a time.  One action is one statement of  *)
(* the source; the sub-allocator's allocate and free are split in an entry *)
(* and an exit step so that overlap of two calls is a state of the model.  *)
(* The device and the sub-allocator are external: each of their fallible   *)
(* calls succeeds or fails nondeterministically.                           *)
(***************************************************************************)
EXTENDS Integers, Sequences, FiniteSets, TLC

\* ---------------------------------------------------------------- bounds
Threads == {"t1", "t2"}
\* total number of trait-method calls started, over all threads
MaxCalls == 3
\* longest data slice handed to update_buffer
MaxData == 2

Sizes == {1, 2}                       \* create_buffer's `size`
Usages == {"VERTEX_BUFFER", "INDEX_BUFFER"}
Widths == {1, 2}                      \* create_image's `width`
Heights == {1}                        \* create_image's `height`
ElemSizes == {1, 2}                   \* size_of::<T>() of update_buffer's T

NoThread == "none"
\* an Allocation: its identity in the pool, its size, its location, whether
\* mapped_ptr() is Some, and the bytes of its mapped region
NoAlloc == [id |-> 0, size |-> 0, mapped |-> FALSE, location |-> "none",
            region |-> <<>>]
\* a raw resource with the allocation paired to it; bound is the identity
\* of the memory the device has bound to the raw resource, 0 while unbound
NoHandle == [kind |-> "none", raw |-> 0, alloc |-> NoAlloc, bound |-> 0]
Ids == 1..(MaxCalls + 1)

\* MemoryLocation passed in AllocationCreateDesc
BufferLocation_Mutant == "GpuOnly"
BufferLocation == "CpuToGpu"
ImageLocation_Mutant == "CpuToGpu"
ImageLocation == "GpuOnly"

\* vk::Format::R8G8B8A8_UNORM: four bytes a texel
BytesPerTexel == 4

VARIABLES
    pc,          \* pc[t]: the statement thread t executes next
    op,          \* op[t]: the method t is in
    cur,         \* cur[t]: arguments and locals of that call
    held,        \* held[t]: the (resource, allocation) pair the caller owns
    lockHolder,  \* owner of the MutexGuard<Allocator>, or NoThread
    poisoned,    \* the Mutex is poisoned
    pool,        \* sub-allocator state: ids of the outstanding allocations
    snap,        \* snap[t]: pool state t read on entry to allocate / free
    rawLive,     \* raw vk::Buffer / vk::Image handles created and not destroyed
    allocCalls,  \* number of Allocator::allocate calls
    freeCalls,   \* number of Allocator::free calls
    doubleFree,  \* Allocator::free was handed an allocation not outstanding
    oob,         \* a copy ran past the end of a mapped region
    log,         \* log[t]: the steps of t's call, in order
    result,      \* result[t]: what t's call returned
    calls,       \* number of calls started
    anyErr       \* some call returned Err or panicked

vars == <<pc, op, cur, held, lockHolder, poisoned, pool, snap, rawLive,
          allocCalls, freeCalls, doubleFree, oob, log, result, calls,
          anyErr>>

NoArgs == [data |-> <<>>, elem |-> 0]
NoCur == [args |-> NoArgs, handle |-> NoHandle, req |-> 0, alloc |-> NoAlloc]

Init ==
    /\ pc = [t \in Threads |-> "idle"]
    /\ op = [t \in Threads |-> "none"]
    /\ cur = [t \in Threads |-> NoCur]
    /\ held = [t \in Threads |-> NoHandle]
    /\ lockHolder = NoThread
    /\ poisoned = FALSE
    /\ pool = {}
    /\ snap = [t \in Threads |-> {}]
    /\ rawLive = {}
    /\ allocCalls = 0
    /\ freeCalls = 0
    /\ doubleFree = FALSE
    /\ oob = FALSE
    /\ log = [t \in Threads |-> <<>>]
    /\ result = [t \in Threads |-> "none"]
    /\ calls = 0
    /\ anyErr = FALSE

\* ------------------------------------------------------------ helpers
Zeros(n) == [i \in 1..n |-> 0]

Step(t, e) == log' = [log EXCEPT ![t] = Append(@, e)]

\* entry of a trait method
Call(t, name) ==
    /\ pc[t] = "idle"
    /\ calls < MaxCalls
    /\ calls' = calls + 1
    /\ op' = [op EXCEPT ![t] = name]

\* the method returns res to its caller
Return(t, res) ==
    /\ pc' = [pc EXCEPT ![t] = "returned"]
    /\ result' = [result EXCEPT ![t] = res]
    /\ anyErr' = (anyErr \/ res # "Ok")

\* the caller takes the result; the call's frame is gone
Resume(t) ==
    /\ pc[t] = "returned"
    /\ pc' = [pc EXCEPT ![t] = "idle"]
    /\ op' = [op EXCEPT ![t] = "none"]
    /\ cur' = [cur EXCEPT ![t] = NoCur]
    /\ log' = [log EXCEPT ![t] = <<>>]
    /\ result' = [result EXCEPT ![t] = "none"]
    /\ UNCHANGED <<held, lockHolder, poisoned, pool, snap, rawLive,
                   allocCalls, freeCalls, doubleFree, oob, calls,
                   anyErr>>

\* the MutexGuard local `allocator` goes out of scope
DropGuard_Mutant(t) == lockHolder' = lockHolder
DropGuard(t) == lockHolder' = IF lockHolder = t THEN NoThread ELSE lockHolder

\* self.allocator.lock(): blocks while another guard is alive, and yields
\* Err(PoisonError), mapped to RendererError::Allocator, on a poisoned mutex
get_allocator_Mutant(t, ok) ==
    /\ ok = ~poisoned
    /\ lockHolder' = IF ok THEN t ELSE lockHolder
get_allocator(t, ok) ==
    /\ lockHolder = NoThread
    /\ ok = ~poisoned
    /\ lockHolder' = IF ok THEN t ELSE lockHolder

\* another owner of the public Arc<Mutex<Allocator>> panics holding the guard
PoisonLock ==
    /\ lockHolder = NoThread
    /\ ~poisoned
    /\ poisoned' = TRUE
    /\ UNCHANGED <<pc, op, cur, held, lockHolder, pool, snap, rawLive,
                   allocCalls, freeCalls, doubleFree, oob, log, result,
                   calls, anyErr>>

\* the handle the device gives a new raw resource: one not in use
NewRaw == CHOOSE i \in Ids : i \notin rawLive /\ \A j \in 1..(i - 1) : j \in rawLive

\* the identity the sub-allocator gives a new allocation, given the pool
\* state p it works on: a region not outstanding in p
NewAlloc(p) == CHOOSE i \in Ids : i \notin p /\ \A j \in 1..(i - 1) : j \in p

\* device.get_*_memory_requirements(..).size: at least the resource's size;
\* the tightest value a driver may report
MemoryRequirements(size) == size

\* Allocation::mapped_ptr() is Some for CpuToGpu memory; GpuOnly memory is
\* mapped only when the chosen memory type happens to be host visible
MappedChoices(location) ==
    IF location = "CpuToGpu" THEN {TRUE} ELSE {FALSE, TRUE}

\* ----------------------------------------- create_buffer / create_image
\* the lock taken before the raw resource is created
DeviceCreate_LockFirst(t, name, kind, size) ==
    /\ Call(t, name)
    /\ held[t] = NoHandle
    /\ lockHolder = NoThread
    /\ ~poisoned
    /\ \/ /\ log' = [log EXCEPT ![t] = <<"lock_ok", "create_fail">>]
          /\ Return(t, "DeviceError")
          /\ UNCHANGED <<rawLive, cur, lockHolder>>
       \/ /\ rawLive' = rawLive \cup {NewRaw}
          /\ cur' = [cur EXCEPT ![t] = [NoCur EXCEPT
                          !.handle = [kind |-> kind, raw |-> NewRaw,
                                      alloc |-> NoAlloc, bound |-> 0],
                          !.req = MemoryRequirements(size)]]
          /\ pc' = [pc EXCEPT ![t] = "allocate"]
          /\ lockHolder' = t
          /\ log' = [log EXCEPT ![t] = <<"lock_ok", "create_ok">>]
          /\ UNCHANGED <<result, anyErr>>
    /\ UNCHANGED <<held, poisoned, pool, snap, allocCalls, freeCalls,
                   doubleFree, oob>>

\* the method is entered and runs up to its first use of the allocator:
\* device.create_buffer / create_image followed by `?`, then the
\* memory-requirements query
DeviceCreate(t, name, kind, size) ==
    /\ Call(t, name)
    /\ held[t] = NoHandle
    /\ \/ /\ Step(t, "create_fail")
          /\ Return(t, "DeviceError")
          /\ UNCHANGED <<rawLive, cur>>
       \/ /\ rawLive' = rawLive \cup {NewRaw}
          /\ cur' = [cur EXCEPT ![t] = [NoCur EXCEPT
                          !.handle = [kind |-> kind, raw |-> NewRaw,
                                      alloc |-> NoAlloc, bound |-> 0],
                          !.req = MemoryRequirements(size)]]
          /\ pc' = [pc EXCEPT ![t] = "lock"]
          /\ Step(t, "create_ok")
          /\ UNCHANGED <<result, anyErr>>
    /\ UNCHANGED <<held, lockHolder, poisoned, pool, snap, allocCalls,
                   freeCalls, doubleFree, oob>>

\* a poisoned mutex is locked again and its guard used all the same
Lock_RetryPoisoned(t, next) ==
    /\ lockHolder = NoThread
    /\ lockHolder' = t
    /\ pc' = [pc EXCEPT ![t] = next]
    /\ log' = [log EXCEPT ![t] =
                  @ \o (IF poisoned THEN <<"lock_fail", "lock_ok">>
                                    ELSE <<"lock_ok">>)]
    /\ UNCHANGED <<result, anyErr>>
    /\ UNCHANGED <<poisoned, pool, snap, rawLive, allocCalls, freeCalls,
                   doubleFree, oob>>

\* let mut allocator = self.get_allocator()?;
Lock(t, next) ==
    /\ \E ok \in BOOLEAN :
       /\ get_allocator(t, ok)
       /\ IF ok
          THEN /\ pc' = [pc EXCEPT ![t] = next]
               /\ Step(t, "lock_ok")
               /\ UNCHANGED <<result, anyErr>>
          ELSE /\ Step(t, "lock_fail")
               /\ Return(t, "AllocatorError")
    /\ UNCHANGED <<poisoned, pool, snap, rawLive, allocCalls, freeCalls,
                   doubleFree, oob>>

\* allocator.allocate(&AllocationCreateDesc { .. location, .. }): entry
AllocateEnter(t, location) ==
    /\ pc[t] = "allocate"
    /\ snap' = [snap EXCEPT ![t] = pool]
    /\ allocCalls' = allocCalls + 1
    /\ cur' = [cur EXCEPT ![t].alloc = [NoAlloc EXCEPT !.location = location]]
    /\ pc' = [pc EXCEPT ![t] = "in_allocate"]
    /\ Step(t, "allocate")
    /\ UNCHANGED <<op, held, lockHolder, poisoned, pool, rawLive, freeCalls,
                   doubleFree, oob, result, calls, anyErr>>

\* allocator.allocate(..)?: the call returns; Err leaves through `?`
AllocateExit(t) ==
    /\ pc[t] = "in_allocate"
    /\ snap' = [snap EXCEPT ![t] = {}]
    /\ \/ /\ pool' = snap[t]
          /\ Step(t, "allocate_fail")
          /\ Return(t, "AllocatorError")
          /\ DropGuard(t)
          /\ UNCHANGED cur
       \/ \E mapped \in MappedChoices(cur[t].alloc.location) :
          LET a == [id |-> NewAlloc(snap[t]), size |-> cur[t].req,
                    mapped |-> mapped, location |-> cur[t].alloc.location,
                    region |-> IF mapped THEN Zeros(cur[t].req) ELSE <<>>]
          IN /\ pool' = snap[t] \cup {a.id}
             /\ cur' = [cur EXCEPT ![t].alloc = a]
             /\ pc' = [pc EXCEPT ![t] = "bind"]
             /\ Step(t, "allocate_ok")
             /\ UNCHANGED <<lockHolder, result, anyErr>>
    /\ UNCHANGED <<op, held, poisoned, rawLive, allocCalls, freeCalls,
                   doubleFree, oob, calls>>

\* the pair is returned without the device having bound it
Bind_NoBind(t) ==
    /\ pc[t] = "bind"
    /\ Step(t, "bind_skipped")
    /\ Return(t, "Ok")
    /\ held' = [held EXCEPT ![t] = [cur[t].handle EXCEPT
                                      !.alloc = cur[t].alloc]]
    /\ DropGuard(t)
    /\ UNCHANGED <<op, cur, poisoned, pool, snap, rawLive, allocCalls,
                   freeCalls, doubleFree, oob, calls>>

\* device.bind_*_memory(resource, allocation.memory(), allocation.offset())?
\* and Ok((resource, allocation)); on either return the guard is dropped,
\* and on Err so is the local `allocation`
Bind(t) ==
    /\ pc[t] = "bind"
    /\ \/ /\ Step(t, "bind_fail")
          /\ Return(t, "DeviceError")
          /\ UNCHANGED held
       \/ /\ Step(t, "bind_ok")
          /\ Return(t, "Ok")
          /\ held' = [held EXCEPT ![t] = [cur[t].handle EXCEPT
                                            !.alloc = cur[t].alloc,
                                            !.bound = cur[t].alloc.id]]
    /\ DropGuard(t)
    /\ UNCHANGED <<op, cur, poisoned, pool, snap, rawLive, allocCalls,
                   freeCalls, doubleFree, oob, calls>>

\* the buffer's size is the size of BufferCreateInfo, whatever the usage
BufferInfoSize(size, usage) == size

create_buffer_device_create(t) ==
    \E size \in Sizes, usage \in Usages :
       DeviceCreate(t, "create_buffer", "buffer", BufferInfoSize(size, usage))

create_buffer_get_allocator(t) ==
    /\ op[t] = "create_buffer"
    /\ pc[t] = "lock"
    /\ Lock(t, "allocate")
    /\ UNCHANGED <<op, cur, held, calls>>

create_buffer_allocate(t) ==
    /\ op[t] = "create_buffer"
    /\ AllocateEnter(t, BufferLocation)

create_buffer_allocate_return(t) ==
    /\ op[t] = "create_buffer"
    /\ AllocateExit(t)

create_buffer_bind(t) ==
    /\ op[t] = "create_buffer"
    /\ Bind(t)

\* Extent3D { width, height, depth: 1 } of R8G8B8A8 texels
ImageInfoSize(width, height) == width * height * BytesPerTexel

create_image_device_create(t) ==
    \E width \in Widths, height \in Heights :
       DeviceCreate(t, "create_image", "image", ImageInfoSize(width, height))

create_image_get_allocator(t) ==
    /\ op[t] = "create_image"
    /\ pc[t] = "lock"
    /\ Lock(t, "allocate")
    /\ UNCHANGED <<op, cur, held, calls>>

create_image_allocate(t) ==
    /\ op[t] = "create_image"
    /\ AllocateEnter(t, ImageLocation)

create_image_allocate_return(t) ==
    /\ op[t] = "create_image"
    /\ AllocateExit(t)

create_image_bind(t) ==
    /\ op[t] = "create_image"
    /\ Bind(t)

\* --------------------------------------- destroy_buffer / destroy_image
\* allocator.free(memory): entry; `memory` is moved into the call
FreeEnter(t) ==
    /\ pc[t] = "free"
    /\ snap' = [snap EXCEPT ![t] = pool]
    /\ freeCalls' = freeCalls + 1
    /\ doubleFree' = (doubleFree \/ cur[t].handle.alloc.id \notin pool)
    /\ pc' = [pc EXCEPT ![t] = "in_free"]
    /\ Step(t, "free")
    /\ UNCHANGED <<op, cur, held, lockHolder, poisoned, pool, rawLive,
                   allocCalls, oob, result, calls, anyErr>>

\* allocator.free(memory)?: the call returns; Err leaves through `?`
FreeExit(t) ==
    /\ pc[t] = "in_free"
    /\ snap' = [snap EXCEPT ![t] = {}]
    /\ \/ /\ pool' = snap[t]
          /\ Step(t, "free_fail")
          /\ Return(t, "AllocatorError")
          /\ DropGuard(t)
       \/ /\ pool' = snap[t] \ {cur[t].handle.alloc.id}
          /\ Step(t, "free_ok")
          /\ pc' = [pc EXCEPT ![t] = "destroy"]
          /\ UNCHANGED <<lockHolder, result, anyErr>>
    /\ UNCHANGED <<op, cur, held, poisoned, rawLive, allocCalls, freeCalls,
                   doubleFree, oob, calls>>

\* unsafe { device.destroy_*(resource, None) }; Ok(())
DeviceDestroy(t) ==
    /\ pc[t] = "destroy"
    /\ rawLive' = rawLive \ {cur[t].handle.raw}
    /\ Step(t, "destroy_raw")
    /\ Return(t, "Ok")
    /\ DropGuard(t)
    /\ UNCHANGED <<op, cur, held, poisoned, pool, snap, allocCalls,
                   freeCalls, doubleFree, oob, calls>>

\* the caller gives up `buffer` and `memory` (Allocation is moved, not
\* cloned) and the method runs up to the lock
DestroyCall_Mutant(t, name, kind) ==
    /\ held[t].kind = kind
    /\ Call(t, name)
    /\ cur' = [cur EXCEPT ![t] = [NoCur EXCEPT !.handle = held[t]]]
    /\ UNCHANGED held
    /\ Lock(t, "free")
\* the raw resource destroyed without the allocation being freed first
DestroyCall_DestroyFirst(t, name, kind) ==
    /\ held[t].kind = kind
    /\ Call(t, name)
    /\ cur' = [cur EXCEPT ![t] = [NoCur EXCEPT !.handle = held[t]]]
    /\ held' = [held EXCEPT ![t] = NoHandle]
    /\ Lock(t, "destroy")
\* the raw resource destroyed although the lock was not acquired
DestroyCall_DestroyOnLockFailure(t, name, kind) ==
    /\ held[t].kind = kind
    /\ Call(t, name)
    /\ cur' = [cur EXCEPT ![t] = [NoCur EXCEPT !.handle = held[t]]]
    /\ held' = [held EXCEPT ![t] = NoHandle]
    /\ \E ok \in BOOLEAN :
       /\ get_allocator(t, ok)
       /\ IF ok
          THEN /\ pc' = [pc EXCEPT ![t] = "free"]
               /\ Step(t, "lock_ok")
               /\ UNCHANGED <<result, anyErr, rawLive>>
          ELSE /\ Step(t, "lock_fail")
               /\ rawLive' = rawLive \ {held[t].raw}
               /\ Return(t, "AllocatorError")
    /\ UNCHANGED <<poisoned, pool, snap, allocCalls, freeCalls, doubleFree,
                   oob>>
DestroyCall(t, name, kind) ==
    /\ held[t].kind = kind
    /\ Call(t, name)
    /\ cur' = [cur EXCEPT ![t] = [NoCur EXCEPT !.handle = held[t]]]
    /\ held' = [held EXCEPT ![t] = NoHandle]
    /\ Lock(t, "free")

destroy_buffer_get_allocator(t) == DestroyCall(t, "destroy_buffer", "buffer")

destroy_buffer_free(t) ==
    /\ op[t] = "destroy_buffer"
    /\ FreeEnter(t)

destroy_buffer_free_return(t) ==
    /\ op[t] = "destroy_buffer"
    /\ FreeExit(t)

destroy_buffer_device_destroy(t) ==
    /\ op[t] = "destroy_buffer"
    /\ DeviceDestroy(t)

destroy_image_get_allocator(t) == DestroyCall(t, "destroy_image", "image")

destroy_image_free(t) ==
    /\ op[t] = "destroy_image"
    /\ FreeEnter(t)

destroy_image_free_return(t) ==
    /\ op[t] = "destroy_image"
    /\ FreeExit(t)

destroy_image_device_destroy(t) ==
    /\ op[t] = "destroy_image"
    /\ DeviceDestroy(t)

\* -------------------------------------------------------- update_buffer
\* the data slices: 7, 8, 9, .. cut at every length up to MaxData, so that
\* the elements of a slice differ and their order shows in the region
DataSlices == {[i \in 1..n |-> 6 + i] : n \in 0..MaxData}

\* the bytes of a slice of T, size_of::<T>() = elem, little endian
RECURSIVE Bytes(_, _)
Bytes(data, elem) ==
    IF data = <<>> THEN <<>>
    ELSE <<Head(data)>> \o Zeros(elem - 1) \o Bytes(Tail(data), elem)

\* the copy stops one byte short
CopyFromSlice_Short(region, bytes) ==
    [i \in 1..Len(region) |-> IF i < Len(bytes) THEN bytes[i] ELSE region[i]]

\* Align::new(data_ptr, align_of::<T>(), size).copy_from_slice(data): the
\* stride is size_of::<T>() (a multiple of align_of::<T>()), so the elements
\* are copied back to back: `size` bytes from data_ptr on, whatever the size
\* of the mapped region
CopyFromSlice(region, bytes) ==
    [i \in 1..Len(region) |-> IF i <= Len(bytes) THEN bytes[i] ELSE region[i]]

\* the write waits until no guard of the allocator mutex is alive
update_buffer_WaitsForLock(t) ==
    /\ lockHolder = NoThread
    /\ held[t] # NoHandle
    /\ Call(t, "update_buffer")
    /\ \E data \in DataSlices, elem \in ElemSizes :
       LET a == held[t].alloc
           bytes == Bytes(data, elem)
       IN /\ cur' = [cur EXCEPT ![t] = [NoCur EXCEPT !.handle = held[t],
                                                     !.args.data = data,
                                                     !.args.elem = elem]]
          /\ IF ~a.mapped
             THEN /\ pc' = [pc EXCEPT ![t] = "panicked"]
                  /\ result' = [result EXCEPT ![t] = "panic"]
                  /\ anyErr' = TRUE
                  /\ Step(t, "panic")
                  /\ UNCHANGED <<held, oob>>
             ELSE /\ held' = [held EXCEPT ![t].alloc.region =
                                              CopyFromSlice(@, bytes)]
                  /\ oob' = (oob \/ Len(bytes) > Len(a.region))
                  /\ Step(t, "write")
                  /\ Return(t, "Ok")
    /\ UNCHANGED <<lockHolder, poisoned, pool, snap, rawLive, allocCalls,
                   freeCalls, doubleFree>>

\* the caller lends `memory`, the allocation of a pair it owns;
\* memory.mapped_ptr().unwrap() panics on None, otherwise the copy runs
update_buffer(t) ==
    /\ held[t] # NoHandle
    /\ Call(t, "update_buffer")
    /\ \E data \in DataSlices, elem \in ElemSizes :
       LET a == held[t].alloc
           bytes == Bytes(data, elem)
       IN /\ cur' = [cur EXCEPT ![t] = [NoCur EXCEPT !.handle = held[t],
                                                     !.args.data = data,
                                                     !.args.elem = elem]]
          /\ IF ~a.mapped
             THEN /\ pc' = [pc EXCEPT ![t] = "panicked"]
                  /\ result' = [result EXCEPT ![t] = "panic"]
                  /\ anyErr' = TRUE
                  /\ Step(t, "panic")
                  /\ UNCHANGED <<held, oob>>
             ELSE /\ held' = [held EXCEPT ![t].alloc.region =
                                              CopyFromSlice(@, bytes)]
                  /\ oob' = (oob \/ Len(bytes) > Len(a.region))
                  /\ Step(t, "write")
                  /\ Return(t, "Ok")
    /\ UNCHANGED <<lockHolder, poisoned, pool, snap, rawLive, allocCalls,
                   freeCalls, doubleFree>>

\* ------------------------------------------------------- specification
Next ==
    \/ PoisonLock
    \/ \E t \in Threads :
       \/ create_buffer_device_create(t)
       \/ create_buffer_get_allocator(t)
       \/ create_buffer_allocate(t)
       \/ create_buffer_allocate_return(t)
       \/ create_buffer_bind(t)
       \/ create_image_device_create(t)
       \/ create_image_get_allocator(t)
       \/ create_image_allocate(t)
       \/ create_image_allocate_return(t)
       \/ create_image_bind(t)
       \/ destroy_buffer_get_allocator(t)
       \/ destroy_buffer_free(t)
       \/ destroy_buffer_free_return(t)
       \/ destroy_buffer_device_destroy(t)
       \/ destroy_image_get_allocator(t)
       \/ destroy_image_free(t)
       \/ destroy_image_free_return(t)
       \/ destroy_image_device_destroy(t)
       \/ update_buffer(t)
       \/ Resume(t)

Spec == Init /\ [][Next]_vars

\* the statements of a call of t after the method's first one: a thread
\* inside a call keeps running, and lock() returns once the mutex is free
InCallStep(t) ==
    \/ create_buffer_get_allocator(t)
    \/ create_buffer_allocate(t)
    \/ create_buffer_allocate_return(t)
    \/ create_buffer_bind(t)
    \/ create_image_get_allocator(t)
    \/ create_image_allocate(t)
    \/ create_image_allocate_return(t)
    \/ create_image_bind(t)
    \/ destroy_buffer_free(t)
    \/ destroy_buffer_free_return(t)
    \/ destroy_buffer_device_destroy(t)
    \/ destroy_image_free(t)
    \/ destroy_image_free_return(t)
    \/ destroy_image_device_destroy(t)

\* the threads are scheduled fairly
FairSpec == Spec /\ \A t \in Threads : WF_vars(InCallStep(t))

\* ---------------------------------------------------------- properties
Has(t, e) == \E i \in DOMAIN log[t] : log[t][i] = e
Count(t, e) == Cardinality({i \in DOMAIN log[t] : log[t][i] = e})
Before(t, e, f) ==
    \E i, j \in DOMAIN log[t] : i < j /\ log[t][i] = e /\ log[t][j] = f
Returned(t) == pc[t] = "returned"
InCreate(t) == op[t] \in {"create_buffer", "create_image"}
InDestroy(t) == op[t] \in {"destroy_buffer", "destroy_image"}
InPool(t) == pc[t] \in {"in_allocate", "in_free"}

\* C1: when create_buffer / create_image has created the raw resource and
\* then returns an error because the lock or the allocation failed, the raw
\* resource was destroyed exactly once and is no longer live.
C1_RawDestroyedOnAllocationFailure ==
    \A t \in Threads :
       (/\ Returned(t) /\ InCreate(t) /\ Has(t, "create_ok")
        /\ (Has(t, "lock_fail") \/ Has(t, "allocate_fail")))
       => (Count(t, "destroy_raw") = 1 /\ cur[t].handle.raw \notin rawLive)

\* C2: when create_buffer / create_image returns an error because the
\* device rejected the bind, the raw resource was destroyed before the
\* return.
C2_RawDestroyedOnBindFailure ==
    \A t \in Threads :
       (Returned(t) /\ InCreate(t) /\ Has(t, "bind_fail"))
       => (Has(t, "destroy_raw") /\ cur[t].handle.raw \notin rawLive)

\* C3: a destroy_buffer / destroy_image call that hands the allocation to
\* free also destroys the raw resource before it returns, whether or not
\* free failed, and a failure of free is what the caller gets.
C3_BothDestroyStepsExecute ==
    \A t \in Threads :
       (Returned(t) /\ InDestroy(t) /\ Has(t, "free"))
       => /\ Has(t, "destroy_raw")
          /\ cur[t].handle.raw \notin rawLive
          /\ (Has(t, "free_fail") => result[t] = "AllocatorError")

\* every thread is between calls, owns no pair, and no call failed: every
\* create was followed by its destroy and both returned Ok
AllPairsCompleted ==
    /\ \A t \in Threads : pc[t] \in {"idle", "returned"} /\ held[t] = NoHandle
    /\ ~anyErr

C5_AllocatorCallsSerialized ==
    \A t \in Threads :
       /\ pc[t] \in {"allocate", "in_allocate", "free", "in_free"}
             => lockHolder = t
       /\ InPool(t) => /\ snap[t] = pool
                       /\ \A u \in Threads \ {t} : ~InPool(u)

C5_Witness ==
    \E t, u \in Threads : t # u /\ InPool(t) /\ pc[u] = "lock"

\* C6: no thread is about to run, or running, the device's bind or destroy
\* call while it holds the allocator lock.
C6_LockReleasedBeforeDeviceCalls ==
    \A t \in Threads : pc[t] \in {"bind", "destroy"} => lockHolder # t

\* C7: update_buffer on an allocation without a mapped pointer returns the
\* UnmappedMemory error as a value; it does not panic.
C7_UnmappedWriteReturnsError ==
    \A t \in Threads :
       (/\ op[t] = "update_buffer" /\ pc[t] \in {"returned", "panicked"}
        /\ ~cur[t].handle.alloc.mapped)
       => (pc[t] = "returned" /\ result[t] = "UnmappedMemory")

\* C8: a create_buffer / create_image step in which the device fails to
\* create the raw resource returns the device error having made no lock
\* attempt and no allocate call, and leaves the lock, the pool and the
\* live raw resources as they were.
C8_CreateFailureTouchesNothing ==
    [][\A t \in Threads :
          (pc[t] = "idle" /\ pc'[t] = "returned" /\ InCreate(t)'
           /\ Has(t, "create_fail")')
          => /\ log'[t] = <<"create_fail">>
             /\ result'[t] = "DeviceError"
             /\ UNCHANGED <<lockHolder, pool, snap, allocCalls, rawLive>>]_vars

C8_Witness ==
    \E t \in Threads :
       Returned(t) /\ InCreate(t) /\ log[t] = <<"create_fail">>
       /\ result[t] = "DeviceError"

\* C9: every allocation create_buffer requests or returns is CpuToGpu
\* (host visible) and every one create_image requests or returns is
\* GpuOnly (device local).
C9_LocationCorrect ==
    \A t \in Threads :
       /\ (op[t] = "create_buffer" /\ Has(t, "allocate"))
             => cur[t].alloc.location = "CpuToGpu"
       /\ (op[t] = "create_image" /\ Has(t, "allocate"))
             => cur[t].alloc.location = "GpuOnly"
       /\ held[t].kind = "buffer" => held[t].alloc.location = "CpuToGpu"
       /\ held[t].kind = "image" => held[t].alloc.location = "GpuOnly"

C9_Witness ==
    \E t, u \in Threads :
       /\ op[t] = "create_buffer" /\ Has(t, "allocate_ok")
       /\ held[u].kind = "image"

\* C10: a destroy_buffer / destroy_image call destroys the raw resource
\* only after its free of the allocation succeeded; a call that returns Ok
\* did lock, free, destroy in that order.
C10_FreeBeforeDestroy ==
    \A t \in Threads :
       InDestroy(t) =>
          /\ Has(t, "destroy_raw") => Before(t, "free_ok", "destroy_raw")
          /\ (Returned(t) /\ result[t] = "Ok")
                => log[t] = <<"lock_ok", "free", "free_ok", "destroy_raw">>

C10_Witness ==
    \E t \in Threads : InDestroy(t) /\ Returned(t) /\ result[t] = "Ok"


\* C11: a pair a caller owns is a raw resource the device has bound to the
\* memory of exactly the allocation it is paired with, and a create call
\* that returns Ok ran the bind once and returns the resource and the
\* allocation it created and bound.
C11_ReturnedResourceIsBound ==
    \A t \in Threads :
       /\ held[t] # NoHandle
             => (held[t].alloc.id \in Ids /\ held[t].bound = held[t].alloc.id)
       /\ (Returned(t) /\ InCreate(t) /\ result[t] = "Ok")
             => /\ Count(t, "bind_ok") = 1
                /\ held[t].raw = cur[t].handle.raw
                /\ held[t].alloc = cur[t].alloc
                /\ held[t].bound = cur[t].alloc.id

C11_Witness ==
    \E t \in Threads :
       Returned(t) /\ InCreate(t) /\ result[t] = "Ok" /\ held[t].bound # 0


LockAttempts(t) == Count(t, "lock_ok") + Count(t, "lock_fail")

\* C12: a call whose lock acquisition failed made that one lock attempt
\* and nothing after it: no second attempt, no allocate, no free; it is on
\* its way out with the allocator error and does not hold the lock.
C12_LockFailureReturnsAtOnce ==
    \A t \in Threads :
       Has(t, "lock_fail")
       => /\ LockAttempts(t) = 1
          /\ log[t][Len(log[t])] = "lock_fail"
          /\ ~Has(t, "allocate") /\ ~Has(t, "free")
          /\ Returned(t) /\ result[t] = "AllocatorError"
          /\ lockHolder # t

C12_Witness ==
    \E t, u \in Threads :
       /\ Returned(t) /\ InCreate(t) /\ Has(t, "lock_fail")
       /\ Returned(u) /\ InDestroy(u) /\ Has(u, "lock_fail")


UpdateReturnedOk(t) ==
    Returned(t) /\ op[t] = "update_buffer" /\ result[t] = "Ok"

\* C13: after update_buffer returned Ok on a buffer created by
\* create_buffer, with data of at most the buffer's size in bytes, the
\* mapped region starts with the data: element k of the slice is at byte
\* offset (k - 1) * size_of::<T>(), low byte first, in the slice's order.
C13_RoundTripWrite ==
    \A t \in Threads :
       LET data == cur[t].args.data
           elem == cur[t].args.elem
           region == held[t].alloc.region
       IN (/\ UpdateReturnedOk(t) /\ held[t].kind = "buffer"
           /\ Len(data) * elem <= held[t].alloc.size)
          => /\ Len(region) = held[t].alloc.size
             /\ \A k \in 1..Len(data) :
                   /\ region[(k - 1) * elem + 1] = data[k]
                   /\ \A j \in 2..elem : region[(k - 1) * elem + j] = 0

C13_Witness ==
    \E t \in Threads :
       /\ UpdateReturnedOk(t) /\ held[t].kind = "buffer"
       /\ Len(cur[t].args.data) = 2
       /\ cur[t].args.data[1] # cur[t].args.data[2]
       /\ Len(cur[t].args.data) * cur[t].args.elem <= held[t].alloc.size


\* C14: update_buffer writes no byte outside the mapped region of the
\* allocation it is given: no copy runs past the region's end, and the
\* bytes it wrote are within the allocation's size.
C14_WriteStaysInRegion ==
    /\ ~oob
    /\ \A t \in Threads :
          UpdateReturnedOk(t)
          => Len(cur[t].args.data) * cur[t].args.elem <= held[t].alloc.size

\* C15: when create_buffer / create_image returns an error, the allocation
\* it obtained in that call, if any, is no longer outstanding in the pool.
C15_NoAllocationLeftOnCreateError ==
    \A t \in Threads :
       (/\ Returned(t) /\ InCreate(t) /\ result[t] # "Ok"
        /\ Has(t, "allocate_ok"))
       => cur[t].alloc.id \notin pool


InCall(t) ==
    pc[t] \in {"lock", "allocate", "in_allocate", "bind", "free", "in_free",
               "destroy"}

\* C16: a call makes at most one lock attempt; a thread that is not inside
\* a call does not hold the lock, so the lock is free when no call is in
\* progress; a thread that holds the lock is at a statement that does not
\* wait for it; and under fair scheduling every call in progress returns:
\* a call in progress ends only by returning, and no thread stays inside a
\* call forever.
C16_LockReleasedAndCallsReturn ==
    /\ [](\A t \in Threads :
            /\ LockAttempts(t) <= 1
            /\ ~InCall(t) => lockHolder # t
            /\ lockHolder = t => pc[t] # "lock")
    /\ []((\A t \in Threads : ~InCall(t)) => lockHolder = NoThread)
    /\ [][\A t \in Threads : (InCall(t) /\ ~InCall(t)') => Returned(t)']_vars
    /\ \A t \in Threads : []<>(~InCall(t))

C16_Witness ==
    \E t, u \in Threads :
       t # u /\ pc[t] = "lock" /\ lockHolder = u /\ pc[u] = "bind"

\* C17: a destroy_buffer / destroy_image call that fails to acquire the
\* allocator lock returns AllocatorError having done nothing else: the pool
\* and the set of live raw resources are unchanged, free was not called,
\* and the pair the caller gave up is still allocated and still live.
C17_DestroyLockFailureDoesNothing ==
    /\ [][\A t \in Threads :
            (pc[t] = "idle" /\ pc'[t] = "returned" /\ InDestroy(t)'
             /\ Has(t, "lock_fail")')
            => /\ log'[t] = <<"lock_fail">>
               /\ result'[t] = "AllocatorError"
               /\ UNCHANGED <<pool, rawLive, freeCalls, lockHolder>>]_vars
    /\ [](\A t \in Threads :
            (Returned(t) /\ InDestroy(t) /\ Has(t, "lock_fail"))
            => /\ cur[t].handle.raw \in rawLive
               /\ cur[t].handle.alloc.id \in pool)

C17_Witness ==
    \E t \in Threads :
       /\ Returned(t) /\ op[t] = "destroy_image"
       /\ log[t] = <<"lock_fail">>
       /\ cur[t].handle.raw \in rawLive
       /\ held[t] = NoHandle

\* C18: an update_buffer call makes no step on the allocator: the pool, the
\* lock, its poison flag, the live raw resources and the counts of allocate
\* and free calls are as before, and the call is over in that one step;
\* a thread that owns a pair can make the call whoever holds the lock.
C18_UpdateLeavesAllocatorAlone ==
    /\ [][\A t \in Threads :
            (pc[t] = "idle" /\ op'[t] = "update_buffer")
            => /\ pc'[t] \in {"returned", "panicked"}
               /\ log'[t] \in {<<"write">>, <<"panic">>}
               /\ UNCHANGED <<pool, lockHolder, poisoned, rawLive, snap,
                              allocCalls, freeCalls>>]_vars
    /\ [](\A t \in Threads :
            (pc[t] = "idle" /\ held[t] # NoHandle /\ calls < MaxCalls)
            => ENABLED update_buffer(t))

C18_Witness ==
    \E t, u \in Threads :
       /\ t # u
       /\ UpdateReturnedOk(t)
       /\ lockHolder = u /\ pc[u] \in {"in_allocate", "bind"}

====
